---- MODULE Spec2Model ----
(***************************************************************************)
(* FeRSS-Core: the item and channel collections and their sort and filter  *)
(* operations.                                                             *)
(*                                                                         *)
(*   ItemCollection              src/src/structures/item_collection.rs     *)
(*   ChannelCollection (owning)  src/src/structures/channel_collection.rs  *)
(*   ChannelCollection (locked)  src/src/core/channel_collection.rs        *)
(*                                                                         *)
(* Strings are sequences of byte values, so that str::cmp, str::len and    *)
(* str::contains are computed on the bytes as Rust computes them.          *)
(* Option<T> is a record [some, v]; an item reference is the item record,  *)
(* whose id field stands for the address of the referenced rss::Item.      *)
(***************************************************************************)
EXTENDS Naturals, Integers, Sequences, FiniteSets, TLC

VARIABLES
    items,          \* ItemCollection.items of a stand-alone ItemCollection
    channels,       \* owning ChannelCollection.channels (Vec<Channel>)
    core_channels,  \* locked ChannelCollection.channels (Mutex<Vec<&Channel>>)
    core_items,     \* locked ChannelCollection.items (Mutex<ItemCollection>)
    poisoned,       \* which of the two mutexes of the locked variant are poisoned
    object,         \* the object the calls of this run are made on
    op,             \* the call made last: [name, crit]
    ret,            \* what that call produced: [panic, v]
    mutex,          \* the thread holding each mutex of the locked variant, 0 if none
    threads         \* where each thread is in its call on the locked variant

vars == <<items, channels, core_channels, core_items, poisoned, object, op, ret,
          mutex, threads>>

----------------------------------------------------------------------------
(* Bounds of the model *)

MaxItems == 3
MaxChannels == 3
NThreads == 2
MaxPushes == 2

----------------------------------------------------------------------------
(* Option<T> *)

None == [some |-> FALSE, v |-> <<>>]
Some(x) == [some |-> TRUE, v |-> x]

(* Strings used as titles, descriptions and substrings ("a" is <<97>>) *)
Str_empty == <<>>
Str_a == <<97>>
Str_b == <<98>>
Str_c == <<99>>
Str_aa == <<97, 97>>
Str_ab == <<97, 98>>
Str_A == <<65>>
Str_B == <<66>>
Str_AB == <<65, 66>>

(* The text of a pub_date, by its RFC 2822 fields: "dd Jan 2017 hh:00:00   *)
(* +oo00" when wf, and a text chrono rejects (such as "2020-01-01") when   *)
(* not wf.                                                                 *)
DateText(d, h, o) == [wf |-> TRUE, day |-> d, hour |-> h, off |-> o]
BadDateText == [wf |-> FALSE, day |-> 0, hour |-> 0, off |-> 0]
NoDate == [some |-> FALSE, v |-> BadDateText]

(* rss::Source with its optional title *)
NoSource == [some |-> FALSE, title |-> None]
SomeSource(t) == [some |-> TRUE, title |-> t]

Item(i, t, d, p, s) ==
    [id |-> i, title |-> t, description |-> d, pub_date |-> p, source |-> s]

(* The rss::Item values the environment supplies.  Ties (1 and 2 under     *)
(* Length, Date and Source; 2 and 6 under Title), absent fields (3, 4, 7), *)
(* a malformed date (4), a source without a title (4), the empty           *)
(* description (5), two texts of one instant (1, 2) and a later clock time *)
(* that is an earlier instant (6 against 1) all occur.                     *)
Item1 == Item(1, Some(Str_b), Some(Str_a), Some(DateText(2, 12, 0)), SomeSource(Some(Str_A)))
Item2 == Item(2, Some(Str_a), Some(Str_b), Some(DateText(2, 13, 1)), SomeSource(Some(Str_A)))
Item3 == Item(3, None, None, NoDate, NoSource)
Item4 == Item(4, None, None, Some(BadDateText), SomeSource(None))
Item5 == Item(5, Some(Str_ab), Some(Str_empty), Some(DateText(1, 12, 0)), SomeSource(Some(Str_B)))
Item6 == Item(6, Some(Str_a), Some(Str_aa), Some(DateText(2, 14, 3)), SomeSource(Some(Str_AB)))
Item7 == Item(7, Some(Str_B), Some(Str_ab), NoDate, SomeSource(Some(Str_a)))

ItemPool == {Item1, Item2, Item3, Item4, Item5, Item6, Item7}

(* enum ItemSortType, with the Source variant ItemCollection::sort matches *)
ItemSortType == {"Title", "Source", "Date", "Length"}

(* enum ItemFilterType: the variant and its payload.  The Date targets are *)
(* the instant of items 1 and 2, the instant of item 6 (items 1 and 2 are  *)
(* later), and a text that does not parse.                                 *)
FilterCrit(k, str, len, date) == [kind |-> k, s |-> str, n |-> len, d |-> date]
ItemFilterType ==
    {FilterCrit("Title", x, 0, BadDateText) : x \in {Str_a, Str_b}}
    \cup {FilterCrit("Source", x, 0, BadDateText) : x \in {Str_A}}
    \cup {FilterCrit("Length", Str_empty, x, BadDateText) : x \in {0, 1, 2}}
    \cup {FilterCrit("Date", Str_empty, 0, x) : x \in {DateText(2, 12, 0), DateText(2, 11, 0), BadDateText}}

----------------------------------------------------------------------------
(* std::cmp::Ordering, as the strings "Less", "Equal", "Greater"; a        *)
(* comparison that unwinds is "Panic".                                     *)

NatCmp(a, b) == IF a < b THEN "Less" ELSE IF a > b THEN "Greater" ELSE "Equal"

(* str::cmp: lexicographic on the bytes *)
RECURSIVE StrCmp(_, _)
StrCmp(a, b) ==
    IF a = <<>> THEN (IF b = <<>> THEN "Equal" ELSE "Less")
    ELSE IF b = <<>> THEN "Greater"
    ELSE IF a[1] < b[1] THEN "Less"
    ELSE IF a[1] > b[1] THEN "Greater"
    ELSE StrCmp(Tail(a), Tail(b))

(* Faulty variant, for C9: None ordered after every Some *)
OptStrCmp_none_last(a, b) ==
    IF ~a.some THEN (IF b.some THEN "Greater" ELSE "Equal")
    ELSE IF ~b.some THEN "Less"
    ELSE StrCmp(a.v, b.v)

(* Option<&str>::cmp: None is less than every Some *)
OptStrCmp(a, b) ==
    IF ~a.some THEN (IF b.some THEN "Less" ELSE "Equal")
    ELSE IF ~b.some THEN "Greater"
    ELSE StrCmp(a.v, b.v)

(* str::contains *)
Contains(hay, needle) ==
    \E i \in 0..Len(hay) :
        /\ i + Len(needle) <= Len(hay)
        /\ SubSeq(hay, i + 1, i + Len(needle)) = needle

(* DateTime::parse_from_rfc2822: the instant in hours since 31 Dec 2016    *)
(* 00:00 UTC (the offset is subtracted), or an error.  DateTime compares   *)
(* by instant.                                                             *)
parse_from_rfc2822(text) ==
    IF text.wf THEN [ok |-> TRUE, t |-> text.day * 24 + text.hour - text.off]
    ELSE [ok |-> FALSE, t |-> 0]

----------------------------------------------------------------------------
(* ItemCollection::sort: the comparator of each arm.  Option::unwrap and   *)
(* Result::unwrap unwind on None and Err.                                  *)

compare_title(a, b) == OptStrCmp(a.title, b.title)

compare_source(a, b) ==
    IF ~a.source.some \/ ~a.source.title.some THEN "Panic"
    ELSE IF ~b.source.some \/ ~b.source.title.some THEN "Panic"
    ELSE StrCmp(a.source.title.v, b.source.title.v)

(* Faulty variant, for C8: the clock time compared, the offset ignored *)
compare_date_clock(a, b) ==
    IF ~a.pub_date.some \/ ~parse_from_rfc2822(a.pub_date.v).ok THEN "Panic"
    ELSE IF ~b.pub_date.some \/ ~parse_from_rfc2822(b.pub_date.v).ok THEN "Panic"
    ELSE NatCmp(a.pub_date.v.day * 24 + a.pub_date.v.hour,
                b.pub_date.v.day * 24 + b.pub_date.v.hour)

compare_date(a, b) ==
    IF ~a.pub_date.some \/ ~parse_from_rfc2822(a.pub_date.v).ok THEN "Panic"
    ELSE IF ~b.pub_date.some \/ ~parse_from_rfc2822(b.pub_date.v).ok THEN "Panic"
    ELSE NatCmp(parse_from_rfc2822(a.pub_date.v).t, parse_from_rfc2822(b.pub_date.v).t)

(* Faulty variant, for C6: the two asymmetric answers exchanged *)
compare_length_content_first(a, b) ==
    IF a.description.some
    THEN IF b.description.some
         THEN NatCmp(Len(a.description.v), Len(b.description.v))
         ELSE "Less"
    ELSE "Greater"

compare_length(a, b) ==
    IF a.description.some
    THEN IF b.description.some
         THEN NatCmp(Len(a.description.v), Len(b.description.v))
         ELSE "Greater"
    ELSE "Less"

compare(sort_type, a, b) ==
    CASE sort_type = "Title" -> compare_title(a, b)
      [] sort_type = "Source" -> compare_source(a, b)
      [] sort_type = "Date" -> compare_date(a, b)
      [] sort_type = "Length" -> compare_length(a, b)

(* slice::sort_by on a short slice is an insertion sort: each element in   *)
(* turn moves left while the comparator says it is Less than the element   *)
(* before it.  The result is [panic, v].                                   *)
(* Faulty variant, for C5: an element also moves left past its equals *)
RECURSIVE insert_tail_past_equal(_, _, _)
insert_tail_past_equal(sorted, x, sort_type) ==
    IF sorted = <<>> THEN [panic |-> FALSE, v |-> <<x>>]
    ELSE LET last == sorted[Len(sorted)]
             ord == compare(sort_type, x, last)
         IN  IF ord = "Panic" THEN [panic |-> TRUE, v |-> Append(sorted, x)]
             ELSE IF ord \in {"Less", "Equal"}
             THEN LET rest == insert_tail_past_equal(SubSeq(sorted, 1, Len(sorted) - 1),
                                                     x, sort_type)
                  IN  [panic |-> rest.panic, v |-> Append(rest.v, last)]
             ELSE [panic |-> FALSE, v |-> Append(sorted, x)]

RECURSIVE insert_tail(_, _, _)
insert_tail(sorted, x, sort_type) ==
    IF sorted = <<>> THEN [panic |-> FALSE, v |-> <<x>>]
    ELSE LET last == sorted[Len(sorted)]
             ord == compare(sort_type, x, last)
         IN  IF ord = "Panic" THEN [panic |-> TRUE, v |-> Append(sorted, x)]
             ELSE IF ord = "Less"
             THEN LET rest == insert_tail(SubSeq(sorted, 1, Len(sorted) - 1), x, sort_type)
                  IN  [panic |-> rest.panic, v |-> Append(rest.v, last)]
             ELSE [panic |-> FALSE, v |-> Append(sorted, x)]

RECURSIVE sort_prefix(_, _, _)
sort_prefix(v, n, sort_type) ==
    IF n <= 1 THEN [panic |-> FALSE, v |-> SubSeq(v, 1, n)]
    ELSE LET before == sort_prefix(v, n - 1, sort_type)
         IN  IF before.panic THEN before
             ELSE insert_tail(before.v, v[n], sort_type)

sort_by(v, sort_type) == sort_prefix(v, Len(v), sort_type)

(* ItemCollection::filter: the predicate of each arm, "Keep", "Drop" or    *)
(* "Panic".                                                                *)
(* Faulty variant, for C13: the letters compared without regard to case *)
retain_title_ignoring_case(item, filter_title) ==
    LET lower(s) == [i \in 1..Len(s) |-> IF s[i] \in 65..90 THEN s[i] + 32 ELSE s[i]]
    IN  IF item.title.some
        THEN (IF Contains(lower(item.title.v), lower(filter_title)) THEN "Keep" ELSE "Drop")
        ELSE "Drop"

retain_title(item, filter_title) ==
    IF item.title.some
    THEN (IF Contains(item.title.v, filter_title) THEN "Keep" ELSE "Drop")
    ELSE "Drop"

(* Faulty variant, for C14: the title of a present source unwrapped *)
retain_source_unwrap(item, filter_source) ==
    IF item.source.some
    THEN IF item.source.title.some
         THEN (IF Contains(item.source.title.v, filter_source) THEN "Keep" ELSE "Drop")
         ELSE "Panic"
    ELSE "Drop"

retain_source(item, filter_source) ==
    IF item.source.some
    THEN IF item.source.title.some
         THEN (IF Contains(item.source.title.v, filter_source) THEN "Keep" ELSE "Drop")
         ELSE "Drop"
    ELSE "Drop"

retain_length(item, filter_length) ==
    IF item.description.some
    THEN (IF Len(item.description.v) <= filter_length THEN "Keep" ELSE "Drop")
    ELSE "Drop"

(* Faulty variant, for C10: an absent pub_date unwinds as well *)
retain_date_strict(item, filter_date) ==
    IF item.pub_date.some
    THEN IF ~parse_from_rfc2822(item.pub_date.v).ok THEN "Panic"
         ELSE IF ~parse_from_rfc2822(filter_date).ok THEN "Panic"
         ELSE IF parse_from_rfc2822(item.pub_date.v).t <= parse_from_rfc2822(filter_date).t
              THEN "Keep" ELSE "Drop"
    ELSE "Panic"

(* Faulty variant, for C11: an item dated exactly at the target dropped *)
retain_date_before(item, filter_date) ==
    IF item.pub_date.some
    THEN IF ~parse_from_rfc2822(item.pub_date.v).ok THEN "Panic"
         ELSE IF ~parse_from_rfc2822(filter_date).ok THEN "Panic"
         ELSE IF parse_from_rfc2822(item.pub_date.v).t < parse_from_rfc2822(filter_date).t
              THEN "Keep" ELSE "Drop"
    ELSE "Drop"

retain_date(item, filter_date) ==
    IF item.pub_date.some
    THEN IF ~parse_from_rfc2822(item.pub_date.v).ok THEN "Panic"
         ELSE IF ~parse_from_rfc2822(filter_date).ok THEN "Panic"
         ELSE IF parse_from_rfc2822(item.pub_date.v).t <= parse_from_rfc2822(filter_date).t
              THEN "Keep" ELSE "Drop"
    ELSE "Drop"

retain_pred(item, filter_type) ==
    CASE filter_type.kind = "Title" -> retain_title(item, filter_type.s)
      [] filter_type.kind = "Source" -> retain_source(item, filter_type.s)
      [] filter_type.kind = "Length" -> retain_length(item, filter_type.n)
      [] filter_type.kind = "Date" -> retain_date(item, filter_type.d)

(* Faulty variant, for C24: a kept element ends up behind the later ones,  *)
(* as when the dropped ones are taken out with swap_remove                 *)
RECURSIVE retain_reordering(_, _)
retain_reordering(v, filter_type) ==
    IF v = <<>> THEN [panic |-> FALSE, v |-> <<>>]
    ELSE LET keep == retain_pred(v[1], filter_type)
         IN  IF keep = "Panic" THEN [panic |-> TRUE, v |-> v]
             ELSE LET rest == retain_reordering(Tail(v), filter_type)
                  IN  [panic |-> rest.panic,
                       v |-> IF keep = "Keep" THEN rest.v \o <<v[1]>> ELSE rest.v]

(* Vec::retain: the elements in order, keeping those the predicate keeps *)
RECURSIVE retain(_, _)
retain(v, filter_type) ==
    IF v = <<>> THEN [panic |-> FALSE, v |-> <<>>]
    ELSE LET keep == retain_pred(v[1], filter_type)
         IN  IF keep = "Panic" THEN [panic |-> TRUE, v |-> v]
             ELSE LET rest == retain(Tail(v), filter_type)
                  IN  [panic |-> rest.panic,
                       v |-> IF keep = "Keep" THEN <<v[1]>> \o rest.v ELSE rest.v]

----------------------------------------------------------------------------
(* ItemCollection.  A &mut self method is an operator from the items field *)
(* to [panic, v], v being the field after the call.                        *)

ItemCollection_new == <<>>

(* Faulty variant, for C27: the reference put in front *)
ItemCollection_push_front(self, item) == <<item>> \o self

ItemCollection_push(self, item) == Append(self, item)

ItemCollection_items(self) == self

ItemCollection_sort(self, sort_type) == sort_by(self, sort_type)

ItemCollection_filter(self, filter_type) == retain(self, filter_type)

----------------------------------------------------------------------------
(* rss::Channel values the environment supplies: the three channels of     *)
(* test_channel_collection_sort, Channel::default(), and a channel whose   *)
(* items lack fields.  Every item belongs to one channel.                  *)

Channel(t, its) == [title |-> t, items |-> its]

Channel1 == Channel(Str_c, <<Item1, Item6>>)
Channel2 == Channel(Str_b, <<Item2>>)
Channel3 == Channel(Str_a, <<Item5>>)
Channel4 == Channel(Str_empty, <<>>)
Channel5 == Channel(Str_b, <<Item7, Item3, Item4>>)

ChannelPool == {Channel1, Channel2, Channel3, Channel4, Channel5}

(* enum ChannelSortType *)
ChannelSortType == {"Title", "Date", "Length", "Publisher"}

----------------------------------------------------------------------------
(* The owning ChannelCollection (structures/channel_collection.rs).  A     *)
(* &mut self method is an operator from the channels field to              *)
(* [self, ret]: the field after the call and the returned ItemCollection.  *)

ChannelCollection_new == <<>>

ChannelCollection_push(self, channel) == Append(self, channel)

ChannelCollection_channels(self) == self

(* Faulty variant, for C3: each item pushed at the front *)
RECURSIVE push_items_front(_, _)
push_items_front(collection, channel_items) ==
    IF channel_items = <<>> THEN collection
    ELSE push_items_front(<<channel_items[1]>> \o collection, Tail(channel_items))

RECURSIVE push_items(_, _)
push_items(collection, channel_items) ==
    IF channel_items = <<>> THEN collection
    ELSE push_items(ItemCollection_push(collection, channel_items[1]), Tail(channel_items))

RECURSIVE push_channels(_, _)
push_channels(collection, chs) ==
    IF chs = <<>> THEN collection
    ELSE push_channels(push_items(collection, chs[1].items), Tail(chs))

(* Faulty variant, for C21: the flattening stops after the first channel *)
ChannelCollection_item_collection_first(self) ==
    IF self = <<>> THEN ItemCollection_new
    ELSE push_items(ItemCollection_new, self[1].items)

ChannelCollection_item_collection(self) == push_channels(ItemCollection_new, self)

ChannelCollection_items(self) ==
    ItemCollection_items(ChannelCollection_item_collection(self))

(* Faulty variant, for C20: the items of each stored channel sorted too *)
ChannelCollection_sort_in_place(self, sort_type) ==
    [self |-> [i \in 1..Len(self) |->
                  [self[i] EXCEPT !.items = IF ItemCollection_sort(@, sort_type).panic THEN @
                                            ELSE ItemCollection_sort(@, sort_type).v]],
     ret |-> ItemCollection_sort(ChannelCollection_item_collection(self), sort_type)]

ChannelCollection_sort(self, sort_type) ==
    [self |-> self,
     ret |-> ItemCollection_sort(ChannelCollection_item_collection(self), sort_type)]

(* Faulty variant, for C2: the stored channels are filtered as well *)
ChannelCollection_filter_in_place(self, filter_type) ==
    [self |-> [i \in 1..Len(self) |->
                  [self[i] EXCEPT !.items = IF retain(@, filter_type).panic THEN @
                                            ELSE retain(@, filter_type).v]],
     ret |-> ItemCollection_filter(ChannelCollection_item_collection(self), filter_type)]

ChannelCollection_filter(self, filter_type) ==
    [self |-> self,
     ret |-> ItemCollection_filter(ChannelCollection_item_collection(self), filter_type)]

(* ChannelFilterType::Name(substr).  enums.rs declares the variant; the    *)
(* filter that takes it is not in the sources, so this follows the         *)
(* specification: the channels whose title contains substr are selected    *)
(* and their items flattened, the collection itself left as it is.         *)
ChannelFilterNames == {Str_a, Str_b}

ChannelCollection_filter_name(self, substr) ==
    [self |-> self,
     ret |-> [panic |-> FALSE,
              v |-> ChannelCollection_items(
                        SelectSeq(self, LAMBDA channel : Contains(channel.title, substr)))]]

----------------------------------------------------------------------------
(* The locked ChannelCollection (core/channel_collection.rs): two mutexes, *)
(* channels and items.  self is [channels, items, poisoned]; a method      *)
(* gives [self, panic, v].  Mutex::lock().unwrap() unwinds on a poisoned   *)
(* mutex, and a guard dropped while unwinding poisons its mutex.           *)

CoreSelf(chs, its, psn) == [channels |-> chs, items |-> its, poisoned |-> psn]
CoreRet(s, p, r) == [self |-> s, panic |-> p, v |-> r]

core_new == CoreSelf(<<>>, ItemCollection_new, {})

(* Faulty variant, for C1: the channel appended, its items forgotten *)
core_push_channel_only(self, channel) ==
    IF "channels" \in self.poisoned THEN CoreRet(self, TRUE, <<>>)
    ELSE IF "items" \in self.poisoned
    THEN CoreRet([self EXCEPT !.poisoned = @ \cup {"channels"}], TRUE, <<>>)
    ELSE CoreRet([self EXCEPT !.channels = Append(@, channel)], FALSE, <<>>)

core_push(self, channel) ==
    IF "channels" \in self.poisoned THEN CoreRet(self, TRUE, <<>>)
    ELSE IF "items" \in self.poisoned
    THEN CoreRet([self EXCEPT !.poisoned = @ \cup {"channels"}], TRUE, <<>>)
    ELSE CoreRet([self EXCEPT !.items = push_items(@, channel.items),
                              !.channels = Append(@, channel)], FALSE, <<>>)

(* Faulty variant, for C22: the guard taken out of a poisoned mutex *)
core_channels_get_recovering(self) == CoreRet(self, FALSE, self.channels)

core_channels_get(self) ==
    IF "channels" \in self.poisoned THEN CoreRet(self, TRUE, <<>>)
    ELSE CoreRet(self, FALSE, self.channels)

(* Faulty variant, for C19: the item view moved out, an empty one left *)
core_items_get_taking(self) ==
    IF "items" \in self.poisoned THEN CoreRet(self, TRUE, <<>>)
    ELSE CoreRet([self EXCEPT !.items = ItemCollection_new], FALSE,
                 ItemCollection_items(self.items))

core_items_get(self) ==
    IF "items" \in self.poisoned THEN CoreRet(self, TRUE, <<>>)
    ELSE CoreRet(self, FALSE, ItemCollection_items(self.items))

(* Faulty variant, for C16: a channel also moves left past an equal title *)
RECURSIVE insert_channel_past_equal(_, _)
insert_channel_past_equal(sorted, x) ==
    IF sorted = <<>> THEN <<x>>
    ELSE LET last == sorted[Len(sorted)]
         IN  IF StrCmp(x.title, last.title) \in {"Less", "Equal"}
             THEN Append(insert_channel_past_equal(SubSeq(sorted, 1, Len(sorted) - 1), x), last)
             ELSE Append(sorted, x)

(* Vec<&Channel>::sort_by(|a, b| a.title().cmp(&b.title())) *)
RECURSIVE insert_channel(_, _)
insert_channel(sorted, x) ==
    IF sorted = <<>> THEN <<x>>
    ELSE LET last == sorted[Len(sorted)]
         IN  IF StrCmp(x.title, last.title) = "Less"
             THEN Append(insert_channel(SubSeq(sorted, 1, Len(sorted) - 1), x), last)
             ELSE Append(sorted, x)

RECURSIVE sort_channels_prefix(_, _)
sort_channels_prefix(v, n) ==
    IF n <= 1 THEN SubSeq(v, 1, n)
    ELSE insert_channel(sort_channels_prefix(v, n - 1), v[n])

sort_by_title(v) == sort_channels_prefix(v, Len(v))

(* Faulty variant, for C18: an item criterion puts the channels in title   *)
(* order as well                                                           *)
core_sort_channels_too(self, sort_type) ==
    IF sort_type = "Publisher"
    THEN IF "channels" \in self.poisoned THEN CoreRet(self, TRUE, <<>>)
         ELSE core_items_get([self EXCEPT !.channels = sort_by_title(@)])
    ELSE IF "items" \in self.poisoned THEN CoreRet(self, TRUE, <<>>)
         ELSE LET sorted == ItemCollection_sort(self.items, sort_type)
              IN  IF sorted.panic
                  THEN CoreRet([self EXCEPT !.poisoned = @ \cup {"items"}], TRUE, <<>>)
                  ELSE core_items_get([self EXCEPT !.items = sorted.v,
                                                   !.channels = sort_by_title(@)])

core_sort(self, sort_type) ==
    IF sort_type = "Publisher"
    THEN IF "channels" \in self.poisoned THEN CoreRet(self, TRUE, <<>>)
         ELSE core_items_get([self EXCEPT !.channels = sort_by_title(@)])
    ELSE IF "items" \in self.poisoned THEN CoreRet(self, TRUE, <<>>)
         ELSE LET sorted == ItemCollection_sort(self.items, sort_type)
              IN  IF sorted.panic
                  THEN CoreRet([self EXCEPT !.poisoned = @ \cup {"items"}], TRUE, <<>>)
                  ELSE core_items_get([self EXCEPT !.items = sorted.v])

----------------------------------------------------------------------------
(* The state machine.  A run makes its calls on one object: a stand-alone  *)
(* ItemCollection, an owning ChannelCollection or a locked one.            *)

Range(s) == {s[i] : i \in 1..Len(s)}

NoCrit == FilterCrit("", Str_empty, 0, BadDateText)
SortCrit(sort_type) == FilterCrit(sort_type, Str_empty, 0, BadDateText)
Call(n, c) == [name |-> n, crit |-> c]
Returned(r) == [panic |-> FALSE, v |-> r]
Panicked == [panic |-> TRUE, v |-> <<>>]

(* The threads that call the locked variant, each idle or inside one call: *)
(* pc is the statement it executes next, channel the argument of push, k   *)
(* the number of items the loop of push has appended.                      *)
Threads == 1..NThreads
Idle == [pc |-> "idle", call |-> Call("new", NoCrit), channel |-> Channel(Str_empty, <<>>),
         k |-> 0]
Unlocked == [channels |-> 0, items |-> 0]

Init ==
    /\ object \in {"ItemCollection", "ChannelCollection", "core"}
    /\ items = ItemCollection_new
    /\ channels = ChannelCollection_new
    /\ core_channels = core_new.channels
    /\ core_items = core_new.items
    /\ poisoned = core_new.poisoned
    /\ op = Call("new", NoCrit)
    /\ ret = Returned(<<>>)
    /\ mutex = Unlocked
    /\ threads = [t \in Threads |-> Idle]

(* --- stand-alone ItemCollection; a panic ends the run ------------------ *)

ItemPush(item) ==
    /\ object = "ItemCollection"
    /\ ~ret.panic
    /\ Len(items) < MaxItems
    /\ items' = ItemCollection_push(items, item)
    /\ op' = Call("push", NoCrit)
    /\ ret' = Returned(<<>>)
    /\ UNCHANGED <<channels, core_channels, core_items, poisoned, object, mutex, threads>>

ItemSort(sort_type) ==
    /\ object = "ItemCollection"
    /\ ~ret.panic
    /\ LET r == ItemCollection_sort(items, sort_type)
       IN  /\ items' = IF r.panic THEN items ELSE r.v
           /\ ret' = IF r.panic THEN Panicked ELSE Returned(<<>>)
    /\ op' = Call("sort", SortCrit(sort_type))
    /\ UNCHANGED <<channels, core_channels, core_items, poisoned, object, mutex, threads>>

ItemFilter(filter_type) ==
    /\ object = "ItemCollection"
    /\ ~ret.panic
    /\ LET r == ItemCollection_filter(items, filter_type)
       IN  /\ items' = IF r.panic THEN items ELSE r.v
           /\ ret' = IF r.panic THEN Panicked ELSE Returned(<<>>)
    /\ op' = Call("filter", filter_type)
    /\ UNCHANGED <<channels, core_channels, core_items, poisoned, object, mutex, threads>>

(* --- owning ChannelCollection ------------------------------------------ *)

ChannelPush(channel) ==
    /\ object = "ChannelCollection"
    /\ Len(channels) < MaxChannels
    /\ channel \notin Range(channels)
    /\ channels' = ChannelCollection_push(channels, channel)
    /\ op' = Call("push", NoCrit)
    /\ ret' = Returned(<<>>)
    /\ UNCHANGED <<items, core_channels, core_items, poisoned, object, mutex, threads>>

ChannelSort(sort_type) ==
    /\ object = "ChannelCollection"
    /\ LET r == ChannelCollection_sort(channels, sort_type)
       IN  /\ channels' = r.self
           /\ ret' = IF r.ret.panic THEN Panicked ELSE Returned(r.ret.v)
    /\ op' = Call("sort", SortCrit(sort_type))
    /\ UNCHANGED <<items, core_channels, core_items, poisoned, object, mutex, threads>>

ChannelFilter(filter_type) ==
    /\ object = "ChannelCollection"
    /\ LET r == ChannelCollection_filter(channels, filter_type)
       IN  /\ channels' = r.self
           /\ ret' = IF r.ret.panic THEN Panicked ELSE Returned(r.ret.v)
    /\ op' = Call("filter", filter_type)
    /\ UNCHANGED <<items, core_channels, core_items, poisoned, object, mutex, threads>>

ChannelFilterName(substr) ==
    /\ object = "ChannelCollection"
    /\ LET r == ChannelCollection_filter_name(channels, substr)
       IN  /\ channels' = r.self
           /\ ret' = IF r.ret.panic THEN Panicked ELSE Returned(r.ret.v)
    /\ op' = Call("filter", FilterCrit("Name", substr, 0, BadDateText))
    /\ UNCHANGED <<items, core_channels, core_items, poisoned, object, mutex, threads>>

(* --- locked ChannelCollection, one call at a time ---------------------- *)

CoreState == CoreSelf(core_channels, core_items, poisoned)

CoreApply(r) ==
    /\ core_channels' = r.self.channels
    /\ core_items' = r.self.items
    /\ poisoned' = r.self.poisoned
    /\ ret' = IF r.panic THEN Panicked ELSE Returned(r.v)
    /\ UNCHANGED <<items, channels, object, mutex, threads>>

CorePush(channel) ==
    /\ object = "core"
    /\ Len(core_channels) < MaxChannels
    /\ CoreApply(core_push(CoreState, channel))
    /\ op' = Call("push", NoCrit)

CoreChannels ==
    /\ object = "core"
    /\ CoreApply(core_channels_get(CoreState))
    /\ op' = Call("channels", NoCrit)

CoreItems ==
    /\ object = "core"
    /\ CoreApply(core_items_get(CoreState))
    /\ op' = Call("items", NoCrit)

CoreSort(sort_type) ==
    /\ object = "core"
    /\ CoreApply(core_sort(CoreState, sort_type))
    /\ op' = Call("sort", SortCrit(sort_type))

Next ==
    \/ \E item \in ItemPool : ItemPush(item)
    \/ \E sort_type \in ItemSortType : ItemSort(sort_type)
    \/ \E filter_type \in ItemFilterType : ItemFilter(filter_type)
    \/ \E channel \in ChannelPool : ChannelPush(channel)
    \/ \E sort_type \in ItemSortType : ChannelSort(sort_type)
    \/ \E filter_type \in ItemFilterType : ChannelFilter(filter_type)
    \/ \E substr \in ChannelFilterNames : ChannelFilterName(substr)
    \/ \E channel \in ChannelPool : CorePush(channel)
    \/ CoreChannels
    \/ CoreItems
    \/ \E sort_type \in ChannelSortType : CoreSort(sort_type)

Spec == Init /\ [][Next]_vars

----------------------------------------------------------------------------
(* The locked ChannelCollection called by several threads.  Each step is   *)
(* one statement of a method; Mutex::lock blocks while another thread      *)
(* holds the mutex, and lock().unwrap() unwinds when the mutex is          *)
(* poisoned.  A call that unwinds drops the guards it holds, which poisons *)
(* their mutexes.  What a call returns is the copy its last step makes;    *)
(* it goes to the caller and is not kept in the state.                     *)

(* The channels the threads push: one of test_channel_collection_sort and  *)
(* one whose only item has neither title nor description and a pub_date    *)
(* that does not parse                                                     *)
Channel6 == Channel(Str_b, <<Item4>>)
ThreadChannelPool == {Channel3, Channel6}
ThreadSortType == {"Title", "Date", "Publisher"}

ThreadInit ==
    /\ object = "threads"
    /\ items = ItemCollection_new
    /\ channels = ChannelCollection_new
    /\ core_channels = core_new.channels
    /\ core_items = core_new.items
    /\ poisoned = core_new.poisoned
    /\ op = Call("new", NoCrit)
    /\ ret = Returned(<<>>)
    /\ mutex = Unlocked
    /\ threads = [t \in Threads |-> Idle]

Release(t, m) == IF mutex[m] = t THEN 0 ELSE mutex[m]
Goto(t, next) == threads' = [threads EXCEPT ![t].pc = next]
Pushing == {t \in Threads : threads[t].pc # "idle" /\ threads[t].call.name = "push"}

(* The call of thread t ends by a panic *)
Unwind(t) ==
    /\ poisoned' = poisoned \cup {m \in {"channels", "items"} : mutex[m] = t}
    /\ mutex' = [m \in {"channels", "items"} |-> Release(t, m)]
    /\ threads' = [threads EXCEPT ![t] = Idle]
    /\ UNCHANGED <<op, ret>>

(* self.<m>.lock().unwrap() *)
Lock(t, m, next) ==
    /\ mutex[m] = 0
    /\ IF m \in poisoned
       THEN Unwind(t)
       ELSE /\ mutex' = [mutex EXCEPT ![m] = t]
            /\ Goto(t, next)
            /\ UNCHANGED <<poisoned, op, ret>>
    /\ UNCHANGED <<items, channels, core_channels, core_items, object>>

ThreadPush(t, channel) ==
    /\ object = "threads"
    /\ threads[t].pc = "idle"
    /\ Len(core_channels) + Cardinality(Pushing) < MaxPushes
    /\ threads' = [threads EXCEPT ![t] = [pc |-> "push_lock_channels",
                                          call |-> Call("push", NoCrit),
                                          channel |-> channel, k |-> 0]]
    /\ UNCHANGED <<items, channels, core_channels, core_items, poisoned, object, op, ret,
                   mutex>>

ThreadChannels(t) ==
    /\ object = "threads"
    /\ threads[t].pc = "idle"
    /\ threads' = [threads EXCEPT ![t].pc = "channels_lock",
                                  ![t].call = Call("channels", NoCrit)]
    /\ UNCHANGED <<items, channels, core_channels, core_items, poisoned, object, op, ret,
                   mutex>>

ThreadItems(t) ==
    /\ object = "threads"
    /\ threads[t].pc = "idle"
    /\ threads' = [threads EXCEPT ![t].pc = "items_lock",
                                  ![t].call = Call("items", NoCrit)]
    /\ UNCHANGED <<items, channels, core_channels, core_items, poisoned, object, op, ret,
                   mutex>>

ThreadSort(t, sort_type) ==
    /\ object = "threads"
    /\ threads[t].pc = "idle"
    /\ threads' = [threads EXCEPT
                       ![t].pc = IF sort_type = "Publisher" THEN "sort_lock_channels"
                                 ELSE "sort_lock_items",
                       ![t].call = Call("sort", SortCrit(sort_type))]
    /\ UNCHANGED <<items, channels, core_channels, core_items, poisoned, object, op, ret,
                   mutex>>

(* push: let mut channels = self.channels.lock().unwrap(); *)
PushLockChannels(t) ==
    /\ threads[t].pc = "push_lock_channels"
    /\ Lock(t, "channels", "push_lock_items")

(* push: let mut items = self.items.lock().unwrap(); *)
PushLockItems(t) ==
    /\ threads[t].pc = "push_lock_items"
    /\ Lock(t, "items", "push_items")

(* Faulty variant, for C23: the items mutex held for one append at a time, *)
(* released after each                                                     *)
PushItem_own_section(t) ==
    /\ threads[t].pc = "push_items"
    /\ threads[t].k < Len(threads[t].channel.items)
    /\ mutex.items \in {0, t}
    /\ core_items' = ItemCollection_push(core_items, threads[t].channel.items[threads[t].k + 1])
    /\ threads' = [threads EXCEPT ![t].k = @ + 1]
    /\ mutex' = [mutex EXCEPT !.items = 0]
    /\ UNCHANGED <<items, channels, core_channels, poisoned, object, op, ret>>

(* push: one turn of the loop, items.push(item) *)
PushItem(t) ==
    /\ threads[t].pc = "push_items"
    /\ threads[t].k < Len(threads[t].channel.items)
    /\ core_items' = ItemCollection_push(core_items, threads[t].channel.items[threads[t].k + 1])
    /\ threads' = [threads EXCEPT ![t].k = @ + 1]
    /\ UNCHANGED <<items, channels, core_channels, poisoned, object, op, ret, mutex>>

(* push: channels.push(channel), the loop being over *)
PushChannel(t) ==
    /\ threads[t].pc = "push_items"
    /\ threads[t].k = Len(threads[t].channel.items)
    /\ core_channels' = Append(core_channels, threads[t].channel)
    /\ Goto(t, "push_drop_items")
    /\ UNCHANGED <<items, channels, core_items, poisoned, object, op, ret, mutex>>

(* push: the guards go out of scope, items first *)
PushDropItems(t) ==
    /\ threads[t].pc = "push_drop_items"
    /\ mutex' = [mutex EXCEPT !.items = Release(t, "items")]
    /\ Goto(t, "push_drop_channels")
    /\ UNCHANGED <<items, channels, core_channels, core_items, poisoned, object, op, ret>>

PushDropChannels(t) ==
    /\ threads[t].pc = "push_drop_channels"
    /\ mutex' = [mutex EXCEPT !.channels = Release(t, "channels")]
    /\ threads' = [threads EXCEPT ![t] = Idle]
    /\ UNCHANGED <<op, ret>>
    /\ UNCHANGED <<items, channels, core_channels, core_items, poisoned, object>>

(* channels: let lock = self.channels.lock().unwrap(); *)
ChannelsLock(t) ==
    /\ threads[t].pc = "channels_lock"
    /\ Lock(t, "channels", "channels_copy")

(* channels: the copy under the guard, returned as the guard is dropped *)
ChannelsCopy(t) ==
    /\ threads[t].pc = "channels_copy"
    /\ mutex' = [mutex EXCEPT !.channels = Release(t, "channels")]
    /\ threads' = [threads EXCEPT ![t] = Idle]
    /\ UNCHANGED <<op, ret>>
    /\ UNCHANGED <<items, channels, core_channels, core_items, poisoned, object>>

(* items, also as the last statement of sort: let lock = self.items.lock().unwrap(); *)
ItemsLock(t) ==
    /\ threads[t].pc = "items_lock"
    /\ Lock(t, "items", "items_copy")

(* items: the copy under the guard, returned as the guard is dropped *)
ItemsCopy(t) ==
    /\ threads[t].pc = "items_copy"
    /\ mutex' = [mutex EXCEPT !.items = Release(t, "items")]
    /\ threads' = [threads EXCEPT ![t] = Idle]
    /\ UNCHANGED <<op, ret>>
    /\ UNCHANGED <<items, channels, core_channels, core_items, poisoned, object>>

(* sort, item criterion: let mut items = self.items.lock().unwrap(); *)
SortLockItems(t) ==
    /\ threads[t].pc = "sort_lock_items"
    /\ Lock(t, "items", "sort_items")

(* Faulty variant, for C25: the guard of the arm still held at self.items() *)
SortItems_keeping_guard(t) ==
    /\ threads[t].pc = "sort_items"
    /\ LET sorted == ItemCollection_sort(core_items, threads[t].call.crit.kind)
       IN  IF sorted.panic
           THEN Unwind(t) /\ UNCHANGED core_items
           ELSE /\ core_items' = sorted.v
                /\ Goto(t, "items_lock")
                /\ UNCHANGED <<poisoned, op, ret, mutex>>
    /\ UNCHANGED <<items, channels, core_channels, object>>

(* sort, item criterion: items.sort(item_sort_type); the guard is dropped  *)
(* at the end of the arm, before self.items()                              *)
SortItems(t) ==
    /\ threads[t].pc = "sort_items"
    /\ LET sorted == ItemCollection_sort(core_items, threads[t].call.crit.kind)
       IN  IF sorted.panic
           THEN Unwind(t) /\ UNCHANGED core_items
           ELSE /\ core_items' = sorted.v
                /\ mutex' = [mutex EXCEPT !.items = Release(t, "items")]
                /\ Goto(t, "items_lock")
                /\ UNCHANGED <<poisoned, op, ret>>
    /\ UNCHANGED <<items, channels, core_channels, object>>

(* sort, Publisher: let mut channels = self.channels.lock().unwrap(); *)
SortLockChannels(t) ==
    /\ threads[t].pc = "sort_lock_channels"
    /\ Lock(t, "channels", "sort_channels")

(* sort, Publisher: channels.sort_by(..); the guard is dropped at the end  *)
(* of the arm, before self.items()                                         *)
SortChannels(t) ==
    /\ threads[t].pc = "sort_channels"
    /\ core_channels' = sort_by_title(core_channels)
    /\ mutex' = [mutex EXCEPT !.channels = Release(t, "channels")]
    /\ Goto(t, "items_lock")
    /\ UNCHANGED <<items, channels, core_items, poisoned, object, op, ret>>

(* A step of thread t inside a call *)
ThreadStep(t) ==
    \/ PushLockChannels(t)
    \/ PushLockItems(t)
    \/ PushItem(t)
    \/ PushChannel(t)
    \/ PushDropItems(t)
    \/ PushDropChannels(t)
    \/ ChannelsLock(t)
    \/ ChannelsCopy(t)
    \/ ItemsLock(t)
    \/ ItemsCopy(t)
    \/ SortLockItems(t)
    \/ SortItems(t)
    \/ SortLockChannels(t)
    \/ SortChannels(t)

ThreadNext ==
    \/ \E t \in Threads : \E channel \in ThreadChannelPool : ThreadPush(t, channel)
    \/ \E t \in Threads : ThreadChannels(t)
    \/ \E t \in Threads : ThreadItems(t)
    \/ \E t \in Threads : \E sort_type \in ThreadSortType : ThreadSort(t, sort_type)
    \/ \E t \in Threads : ThreadStep(t)

ThreadSpec == ThreadInit /\ [][ThreadNext]_vars

(* Fair scheduling: a thread inside a call takes its next step, and a      *)
(* thread waiting for a mutex that is free again and again gets it         *)
FairThreadSpec == ThreadSpec /\ \A t \in Threads : SF_vars(ThreadStep(t))

----------------------------------------------------------------------------
(* Properties *)

RECURSIVE SumItems(_)
SumItems(chs) == IF chs = <<>> THEN 0 ELSE Len(chs[1].items) + SumItems(Tail(chs))

Count(s, x) == Cardinality({i \in 1..Len(s) : s[i] = x})

RECURSIVE CountInChannels(_, _)
CountInChannels(chs, x) ==
    IF chs = <<>> THEN 0 ELSE Count(chs[1].items, x) + CountInChannels(Tail(chs), x)

(* its is the flattening of chs: as many items, each as often as in the channels *)
Flattens(its, chs) ==
    /\ Len(its) = SumItems(chs)
    /\ \A x \in ItemPool : Count(its, x) = CountInChannels(chs, x)

(* The channels() and items() of the object of the run *)
TheChannels ==
    IF object = "core" THEN core_channels_get(CoreState).v
    ELSE ChannelCollection_channels(channels)
TheItems ==
    IF object = "core" THEN core_items_get(CoreState).v
    ELSE ChannelCollection_items(channels)
OnCollection == object \in {"ChannelCollection", "core"} /\ poisoned = {}

(* C1: starting from an empty collection, after any sequence of push calls *)
(* items() has as many elements as the channels of channels() have items,  *)
(* with no item duplicated or dropped; pushing a channel adds one to       *)
(* channels().len(), and pushing a channel without items leaves            *)
(* items().len() as it was.                                                *)
C1_Flattening ==
    /\ [](OnCollection => Flattens(TheItems, TheChannels))
    /\ [][(OnCollection /\ op'.name = "push" /\ ~ret'.panic) =>
            /\ Len(TheChannels') = Len(TheChannels) + 1
            /\ (TheChannels'[Len(TheChannels')].items = <<>>
                   => Len(TheItems') = Len(TheItems))]_vars

C1_Witness ==
    /\ object = "core"
    /\ op.name = "push"
    /\ ~ret.panic
    /\ Len(core_channels) >= 2
    /\ core_channels[Len(core_channels)].items = <<>>
    /\ Len(core_items) >= 2

(* C2: a filter call on the owning ChannelCollection, with any criterion   *)
(* and however often, leaves channels().len() and items().len() as they    *)
(* were; what it returns is a separate collection of references to items   *)
(* of the collection.                                                      *)
C2_FilterNonDestructive ==
    [][(object = "ChannelCollection" /\ op'.name = "filter") =>
         /\ Len(ChannelCollection_channels(channels')) = Len(ChannelCollection_channels(channels))
         /\ Len(ChannelCollection_items(channels')) = Len(ChannelCollection_items(channels))
         /\ Range(ret'.v) \subseteq Range(ChannelCollection_items(channels'))]_vars

C2_Witness ==
    /\ object = "ChannelCollection"
    /\ op.name = "filter"
    /\ ~ret.panic
    /\ Len(ret.v) > 0
    /\ Len(ret.v) < Len(ChannelCollection_items(channels))

(* Where the items of channel i begin in the flattened sequence *)
RECURSIVE Offset(_, _)
Offset(chs, i) == IF i <= 1 THEN 0 ELSE Len(chs[i - 1].items) + Offset(chs, i - 1)

(* its is chs in channel order and, within each channel, in item order *)
InChannelOrder(its, chs) ==
    /\ Len(its) = SumItems(chs)
    /\ \A i \in 1..Len(chs) : \A j \in 1..Len(chs[i].items) :
           its[Offset(chs, i) + j] = chs[i].items[j]

(* C3, as claimed: after any sequence of push, sort and filter calls       *)
(* items() is in channel order and, within a channel, in item order.       *)
C3_AlwaysChannelOrder == OnCollection => InChannelOrder(TheItems, TheChannels)

(* C3, amended: items() is in channel order and item order on the empty    *)
(* collection, and push and filter calls keep it so.                       *)
C3_PushFilterKeepChannelOrder ==
    /\ (OnCollection => InChannelOrder(TheItems, TheChannels))
    /\ [][(/\ OnCollection
           /\ op'.name \in {"push", "filter"}
           /\ ~ret'.panic
           /\ InChannelOrder(TheItems, TheChannels))
          => InChannelOrder(TheItems', TheChannels')]_vars

C3_Witness ==
    /\ object = "core"
    /\ op.name = "push"
    /\ ~ret.panic
    /\ Len(core_channels) >= 2
    /\ Len(core_channels[1].items) >= 2
    /\ Len(core_channels[2].items) >= 1
    /\ InChannelOrder(core_items, core_channels)

----------------------------------------------------------------------------
(* Properties of ItemCollection::sort and ItemCollection::filter *)

OnItems == object = "ItemCollection"
Sorted(sort_type) ==
    OnItems /\ op.name = "sort" /\ op.crit.kind = sort_type /\ ~ret.panic

(* C4, as claimed: sorting a second time by the same criterion, when both  *)
(* sorts succeed, leaves the order the first sort produced.                *)
C4_SortIdempotent ==
    [][(/\ OnItems
        /\ op.name = "sort" /\ ~ret.panic
        /\ op' = op /\ ~ret'.panic)
       => items' = items]_vars

(* The key of an item under a criterion, where it has one *)
HasKey(sort_type, x) ==
    CASE sort_type = "Title" -> x.title.some
      [] sort_type = "Source" -> x.source.some /\ x.source.title.some
      [] sort_type = "Date" -> x.pub_date.some /\ x.pub_date.v.wf
      [] sort_type = "Length" -> x.description.some

Instant(x) == x.pub_date.v.day * 24 + x.pub_date.v.hour - x.pub_date.v.off

(* a <= b for strings, lexicographically *)
LexLeq(a, b) ==
    \E k \in 0..Len(a) :
        /\ k <= Len(b)
        /\ SubSeq(a, 1, k) = SubSeq(b, 1, k)
        /\ \/ k = Len(a)
           \/ k < Len(b) /\ a[k + 1] < b[k + 1]

KeyLeq(sort_type, a, b) ==
    CASE sort_type = "Title" -> LexLeq(a.title.v, b.title.v)
      [] sort_type = "Source" -> LexLeq(a.source.title.v, b.source.title.v)
      [] sort_type = "Date" -> Instant(a) <= Instant(b)
      [] sort_type = "Length" -> Len(a.description.v) <= Len(b.description.v)

(* Two items tie: equal keys (for Title, two absent titles as well) *)
Tie(sort_type, a, b) ==
    \/ HasKey(sort_type, a) /\ HasKey(sort_type, b)
       /\ KeyLeq(sort_type, a, b) /\ KeyLeq(sort_type, b, a)
    \/ sort_type = "Title" /\ ~a.title.some /\ ~b.title.some

TiesOf(sort_type, s, x) == SelectSeq(s, LAMBDA y : Tie(sort_type, x, y))

(* C5: a sort that succeeds keeps items that tie in the relative order     *)
(* they had before it: under Length the items of one description length,   *)
(* and likewise the items of equal key under Title, Date and Source.       *)
C5_SortStable ==
    [][(OnItems /\ op'.name = "sort" /\ ~ret'.panic) =>
         \A x \in Range(items) :
             TiesOf(op'.crit.kind, items', x) = TiesOf(op'.crit.kind, items, x)]_vars

C5_Witness ==
    /\ Sorted("Length")
    /\ \E i, j \in 1..Len(items) :
           /\ i < j
           /\ items[i].id > items[j].id
           /\ Tie("Length", items[i], items[j])
    /\ \E i \in 1..Len(items) : ~items[i].description.some

(* C6, as claimed: after sort(Length) every item with a description comes  *)
(* before every item without one.                                          *)
C6_DescribedFirst ==
    Sorted("Length") =>
        \A i, j \in 1..Len(items) :
            (items[i].description.some /\ ~items[j].description.some) => i < j

(* C6, amended: after sort(Length) every item without a description comes  *)
(* before every item with one, the empty description included.             *)
C6_AbsentFirst ==
    Sorted("Length") =>
        \A i, j \in 1..Len(items) :
            (~items[i].description.some /\ items[j].description.some) => i < j

C6_Witness ==
    /\ Sorted("Length")
    /\ \E i, j \in 1..Len(items) :
           /\ ~items[i].description.some
           /\ items[j].description = Some(Str_empty)
    /\ \E i \in 1..Len(items) :
           items[i].description.some /\ items[i].description.v # Str_empty

(* s is ascending by key, among its items that have the key *)
AscendingWhereKeyed(sort_type, s) ==
    \A i, j \in 1..Len(s) :
        (i < j /\ HasKey(sort_type, s[i]) /\ HasKey(sort_type, s[j]))
            => KeyLeq(sort_type, s[i], s[j])

(* C7, as claimed: after ChannelCollection::sort(t) has returned, items()  *)
(* of the same collection yields the items in the order sorted by t, the   *)
(* order sort returned.                                                    *)
C7_SortAltersStoredOrder ==
    (OnCollection /\ op.name = "sort" /\ op.crit.kind \in ItemSortType /\ ~ret.panic) =>
        /\ TheItems = ret.v
        /\ AscendingWhereKeyed(op.crit.kind, TheItems)

(* What the sort call made last has put in order *)
SortedItems == IF OnItems THEN items ELSE ret.v
SortReturned(sort_type) ==
    /\ object \in {"ItemCollection", "ChannelCollection"}
    /\ op.name = "sort" /\ op.crit.kind = sort_type /\ ~ret.panic

(* C8: after a sort that succeeds on items that all carry the compared     *)
(* field, the sequence is ascending by key: title, instant of the parsed   *)
(* pub_date, description length, source title.                             *)
C8_AscendingByKey ==
    \A sort_type \in ItemSortType :
        (SortReturned(sort_type) /\ \A x \in Range(SortedItems) : HasKey(sort_type, x))
            => \A i, j \in 1..Len(SortedItems) :
                   i < j => KeyLeq(sort_type, SortedItems[i], SortedItems[j])

C8_Witness ==
    /\ Sorted("Date")
    /\ Len(items) = 3
    /\ {Item1, Item6, Item5} = Range(items)

(* C9: after sort(Title) every item without a title comes before every     *)
(* item with one, and the items with a title are in ascending              *)
(* lexicographic order.                                                    *)
C9_TitleOrder ==
    Sorted("Title") =>
        /\ \A i, j \in 1..Len(items) :
               (~items[i].title.some /\ items[j].title.some) => i < j
        /\ \A i, j \in 1..Len(items) :
               (i < j /\ items[i].title.some /\ items[j].title.some)
                   => LexLeq(items[i].title.v, items[j].title.v)

C9_Witness ==
    /\ Sorted("Title")
    /\ \E i, j, k \in 1..Len(items) :
           /\ ~items[i].title.some
           /\ items[j].title.some /\ items[k].title.some
           /\ items[j].title # items[k].title

BadDate(x) == ~x.pub_date.some \/ ~x.pub_date.v.wf

(* C10, as claimed: sort(Date) and filter(Date) fail whenever the          *)
(* collection holds an item whose pub_date is absent or unparsable,        *)
(* whatever the size of the collection.                                    *)
C10_StrictDatePolicy ==
    [][(/\ OnItems
        /\ op'.name \in {"sort", "filter"} /\ op'.crit.kind = "Date"
        /\ \E x \in Range(items) : BadDate(x))
       => ret'.panic]_vars

(* C10, amended: sort(Date) fails exactly when the collection holds two or *)
(* more items and one of them has an absent or unparsable pub_date;        *)
(* filter(Date) fails exactly when an item has a pub_date and that         *)
(* pub_date or the target is unparsable; a filter(Date) that succeeds has  *)
(* dropped the items without a pub_date.                                   *)
C10_DatePolicy ==
    [][(OnItems /\ op'.crit.kind = "Date") =>
         /\ op'.name = "sort" =>
                (ret'.panic <=> (Len(items) >= 2 /\ \E x \in Range(items) : BadDate(x)))
         /\ op'.name = "filter" =>
                /\ ret'.panic <=>
                       \E x \in Range(items) :
                           x.pub_date.some /\ (~x.pub_date.v.wf \/ ~op'.crit.d.wf)
                /\ ~ret'.panic => \A x \in Range(items') : x.pub_date.some]_vars

C10_Witness ==
    /\ OnItems
    /\ op.name = "filter" /\ op.crit.kind = "Date" /\ op.crit.d.wf
    /\ ret.panic
    /\ \E x \in Range(items) : x.pub_date.some /\ ~x.pub_date.v.wf
    /\ \E x \in Range(items) : ~x.pub_date.some

----------------------------------------------------------------------------
(* Properties of filter, arm by arm.  A filter call is made on the         *)
(* stand-alone ItemCollection, which it changes in place, or on the owning *)
(* ChannelCollection, which returns the filtered items.                    *)

FilterStep(kind) ==
    /\ object \in {"ItemCollection", "ChannelCollection"}
    /\ op'.name = "filter" /\ op'.crit.kind = kind
FilterInput == IF OnItems THEN items ELSE ChannelCollection_items(channels)
FilterOutput == IF OnItems THEN items' ELSE ret'.v

TargetInstant(d) == d.day * 24 + d.hour - d.off
OnOrBefore(x, d) == HasKey("Date", x) /\ Instant(x) <= TargetInstant(d)

(* C11, as claimed: filter(Date(target)) keeps exactly the items whose     *)
(* parsed pub_date is on or before the parsed target, an item dated        *)
(* exactly at the target included; an item whose pub_date is absent or     *)
(* unparsable is left out of the result.                                   *)
C11_UnparsableExcluded ==
    [][(FilterStep("Date") /\ op'.crit.d.wf) =>
         /\ ~ret'.panic
         /\ FilterOutput = SelectSeq(FilterInput, LAMBDA x : OnOrBefore(x, op'.crit.d))]_vars

(* C11, amended: filter(Date(target)) with a parsable target fails when an *)
(* item carries an unparsable pub_date; otherwise it keeps exactly the     *)
(* items whose parsed pub_date is on or before the parsed target, an item  *)
(* dated exactly at the target included, and leaves out the items without  *)
(* a pub_date.                                                             *)
C11_DateFilter ==
    [][(FilterStep("Date") /\ op'.crit.d.wf) =>
         IF \E x \in Range(FilterInput) : x.pub_date.some /\ ~x.pub_date.v.wf
         THEN ret'.panic
         ELSE /\ ~ret'.panic
              /\ FilterOutput =
                     SelectSeq(FilterInput, LAMBDA x : OnOrBefore(x, op'.crit.d))]_vars

C11_Witness ==
    /\ object = "ChannelCollection"
    /\ op.name = "filter" /\ op.crit.kind = "Date" /\ op.crit.d.wf
    /\ ~ret.panic
    /\ \E x \in Range(ret.v) : Instant(x) = TargetInstant(op.crit.d)
    /\ \E x \in Range(ChannelCollection_items(channels)) :
           x.pub_date.some /\ x \notin Range(ret.v)

(* C12, as claimed: filter(Length(n)) keeps exactly the items whose        *)
(* description is strictly shorter than n; an item whose description has   *)
(* length n is left out, and so is an item without a description.          *)
C12_StrictlyShorter ==
    [][FilterStep("Length") =>
         /\ ~ret'.panic
         /\ FilterOutput =
                SelectSeq(FilterInput,
                          LAMBDA x : x.description.some /\ Len(x.description.v) < op'.crit.n)]_vars

(* needle occurs in hay, byte for byte *)
IsSubstring(needle, hay) ==
    \E i \in 1..(Len(hay) + 1) : \E j \in 0..Len(hay) :
        /\ j - i + 1 = Len(needle)
        /\ \A k \in 1..Len(needle) : hay[i + k - 1] = needle[k]

(* C13: filter(Title(substr)) keeps exactly the items that have a title    *)
(* in which substr occurs, letter case respected; an item without a title  *)
(* is left out.                                                            *)
C13_TitleFilter ==
    [][FilterStep("Title") =>
         /\ ~ret'.panic
         /\ FilterOutput =
                SelectSeq(FilterInput,
                          LAMBDA x : x.title.some /\ IsSubstring(op'.crit.s, x.title.v))]_vars

C13_Witness ==
    /\ object = "ChannelCollection"
    /\ op.name = "filter" /\ op.crit.kind = "Title" /\ op.crit.s = Str_b
    /\ ~ret.panic
    /\ ret.v = <<Item1>>
    /\ \E x \in Range(ChannelCollection_items(channels)) : ~x.title.some
    /\ \E x \in Range(ChannelCollection_items(channels)) : x.title = Some(Str_B)

(* C14: filter(Source(substr)) keeps exactly the items that have a source  *)
(* whose title is present and contains substr; an item without a source,   *)
(* or whose source has no title, is left out and the call does not fail.   *)
C14_SourceFilter ==
    [][FilterStep("Source") =>
         /\ ~ret'.panic
         /\ FilterOutput =
                SelectSeq(FilterInput,
                          LAMBDA x : /\ x.source.some
                                     /\ x.source.title.some
                                     /\ IsSubstring(op'.crit.s, x.source.title.v))]_vars

C14_Witness ==
    /\ object = "ChannelCollection"
    /\ op.name = "filter" /\ op.crit.kind = "Source"
    /\ ~ret.panic
    /\ \E x \in Range(ret.v) : x.source.title.v # op.crit.s
    /\ \E x \in Range(ChannelCollection_items(channels)) : ~x.source.some
    /\ \E x \in Range(ChannelCollection_items(channels)) :
           x.source.some /\ ~x.source.title.some
    /\ \E x \in Range(ChannelCollection_items(channels)) :
           x.source.some /\ x.source.title.some /\ x \notin Range(ret.v)

(* C15, as claimed: no sort and no filter fails because a title, a         *)
(* description, a pub_date, a source or a source title is absent on some   *)
(* item: with any criterion, on any items whose pub_date, where present,   *)
(* parses, the call returns.                                               *)
C15_AbsenceNeverFails ==
    [][(/\ object \in {"ItemCollection", "ChannelCollection"}
        /\ op'.name \in {"sort", "filter"}
        /\ \A x \in Range(FilterInput) : x.pub_date.some => x.pub_date.v.wf
        /\ (op'.name = "filter" /\ op'.crit.kind = "Date") => op'.crit.d.wf)
       => ~ret'.panic]_vars

----------------------------------------------------------------------------
(* Properties of ChannelCollection::sort, and what no call changes *)

WithTitle(chs, t) == SelectSeq(chs, LAMBDA c : c.title = t)

(* C16: sort(Publisher) on the locked ChannelCollection leaves the stored  *)
(* channels ascending by title, channels of one title in the order they    *)
(* had, and the channels the same as before.                               *)
C16_PublisherSort ==
    [][(/\ object = "core"
        /\ op'.name = "sort" /\ op'.crit.kind = "Publisher"
        /\ "channels" \notin poisoned)
       => /\ \A i, j \in 1..Len(core_channels') :
                 i < j => LexLeq(core_channels'[i].title, core_channels'[j].title)
          /\ \A c \in Range(core_channels) :
                 WithTitle(core_channels', c.title) = WithTitle(core_channels, c.title)
          /\ \A c \in ChannelPool :
                 Count(core_channels', c) = Count(core_channels, c)]_vars

C16_Witness ==
    /\ object = "core"
    /\ op.name = "sort" /\ op.crit.kind = "Publisher"
    /\ ~ret.panic
    /\ core_channels = <<Channel3, Channel5, Channel2>>
    /\ core_items = push_channels(<<>>, <<Channel5, Channel2, Channel3>>)

(* its holds the items of the first channel of chs, then those of the      *)
(* second, and so on, in any order within a channel                        *)
GroupedByChannel(its, chs) ==
    /\ Len(its) = SumItems(chs)
    /\ \A i \in 1..Len(chs) : \A x \in ItemPool :
           Count(SubSeq(its, Offset(chs, i) + 1, Offset(chs, i) + Len(chs[i].items)), x)
               = Count(chs[i].items, x)

(* C17, as claimed: after sort(Publisher) the items sort returned, and the *)
(* items items() then yields, follow the new channel order: the items of   *)
(* the first channel of channels(), then those of the second, and so on.   *)
C17_ItemsFollowChannels ==
    (object = "core" /\ op.name = "sort" /\ op.crit.kind = "Publisher" /\ ~ret.panic) =>
        /\ GroupedByChannel(ret.v, core_channels_get(CoreState).v)
        /\ GroupedByChannel(core_items_get(CoreState).v, core_channels_get(CoreState).v)

StoredChannels == IF object = "core" THEN core_channels ELSE channels
StoredItems == IF object = "core" THEN core_items ELSE ChannelCollection_items(channels)

(* C19: no call makes the channels or the items of a ChannelCollection     *)
(* fewer; a push that returns adds one channel, and sort and filter leave  *)
(* both counts as they were.                                               *)
C19_Monotonic ==
    [][(object \in {"ChannelCollection", "core"}) =>
         /\ Len(StoredChannels') >= Len(StoredChannels)
         /\ Len(StoredItems') >= Len(StoredItems)
         /\ (op'.name = "push" /\ ~ret'.panic)
                => Len(StoredChannels') = Len(StoredChannels) + 1
         /\ op'.name \in {"sort", "filter"}
                => /\ Len(StoredChannels') = Len(StoredChannels)
                   /\ Len(StoredItems') = Len(StoredItems)]_vars

C19_Witness ==
    /\ object = "core"
    /\ op.name = "items"
    /\ ~ret.panic
    /\ Len(core_channels) >= 2
    /\ Len(ret.v) >= 3
    /\ ret.v = core_items
    /\ ~InChannelOrder(core_items, core_channels)

(* C20: every stored channel is a channel as it was pushed, with the items *)
(* it had then, in the order and with the field values it had then; no     *)
(* call on the owning collection changes a stored channel, and no call on  *)
(* the locked one does more than reorder the channels.                     *)
C20_ChannelsUntouched ==
    /\ [](Range(channels) \cup Range(core_channels) \subseteq ChannelPool)
    /\ [][/\ \A i \in 1..Len(channels) : channels'[i] = channels[i]
          /\ \A c \in ChannelPool : Count(core_channels', c) >= Count(core_channels, c)]_vars

C20_Witness ==
    /\ object = "ChannelCollection"
    /\ op.name = "sort" /\ op.crit.kind = "Title"
    /\ ~ret.panic
    /\ Channel1 \in Range(channels)
    /\ Len(channels) >= 2
    /\ ret.v # ChannelCollection_items(channels)

----------------------------------------------------------------------------
----------------------------------------------------------------------------
(* Poisoned mutexes of the locked ChannelCollection *)

OnCore == object = "core"

----------------------------------------------------------------------------
(* ItemCollection: what filter, sort and push do to the stored sequence *)

(* The item meets the criterion: the predicate of the criterion's arm      *)
(* accepts it.  Which items each arm accepts is the matter of C11 to C14.  *)
Matches(crit, x) == retain_pred(x, crit) = "Keep"

(* s without some of its elements, the others in the order they had *)
RECURSIVE IsSubsequence(_, _)
IsSubsequence(s, full) ==
    IF s = <<>> THEN TRUE
    ELSE IF full = <<>> THEN FALSE
    ELSE IF s[1] = full[1] THEN IsSubsequence(Tail(s), Tail(full))
    ELSE IsSubsequence(s, Tail(full))

(* C24: a filter call that returns has changed the ItemCollection in       *)
(* place: the collection then holds the items it held that meet the        *)
(* criterion, each as often as before and in the order they had, nothing   *)
(* added; the items that do not meet it are gone from the collection.      *)
C24_FilterInPlace ==
    [][(OnItems /\ op'.name = "filter" /\ ~ret'.panic) =>
         /\ IsSubsequence(items', items)
         /\ \A x \in ItemPool :
                Count(items', x) = IF Matches(op'.crit, x) THEN Count(items, x) ELSE 0]_vars

C24_Witness ==
    /\ OnItems
    /\ op.name = "filter" /\ op.crit.kind = "Source"
    /\ ~ret.panic
    /\ Len(items) = 2
    /\ items[1].id > items[2].id

(* C27: a sort that returns has permuted the ItemCollection: every item is *)
(* in it as often as before; a push puts one reference at the end and      *)
(* leaves the elements before it as they were.                             *)
C27_SortPermutesPushAppends ==
    [][OnItems =>
         /\ (op'.name = "sort" /\ ~ret'.panic) =>
                /\ Len(items') = Len(items)
                /\ \A x \in ItemPool : Count(items', x) = Count(items, x)
         /\ op'.name = "push" =>
                /\ Len(items') = Len(items) + 1
                /\ SubSeq(items', 1, Len(items)) = items
                /\ items'[Len(items')] \in ItemPool]_vars

C27_Witness ==
    /\ Sorted("Length")
    /\ Len(items) = 3
    /\ items[2] = items[3]
    /\ items[2].description.some
    /\ ~items[1].description.some

----------------------------------------------------------------------------
(* The locked ChannelCollection under threads *)

Busy(t) == threads[t].pc # "idle"

(* Thread u is between the first append of its push to the item view and   *)
(* the append to the channel list                                          *)
MidPush(u) == threads[u].pc = "push_items" /\ threads[u].k > 0

(* Thread t has the guard of its read and is about to copy and return *)
Reading(t) == threads[t].pc \in {"channels_copy", "items_copy"}

(* C23: no thread makes the copy of channels() or items() while another    *)
(* thread is between the first append of a push to the item view and its   *)
(* append to the channel list, and what a read copies belongs to a state   *)
(* in which the item view holds the items of the channels of the list,     *)
(* no more and no less.                                                    *)
C23_PushOneCriticalSection ==
    /\ \A t, u \in Threads : (t # u /\ MidPush(u)) => ~Reading(t)
    /\ \A t \in Threads : Reading(t) => Flattens(core_items, core_channels)

C23_Witness ==
    \E t, u \in Threads :
        /\ t # u
        /\ MidPush(u)
        /\ threads[t].pc = "items_lock"
        /\ threads[t].call.name = "items"
        /\ Len(core_channels) >= 1

(* The mutex thread t waits for, "" if it waits for none *)
WantedLock(t) ==
    CASE threads[t].pc \in {"push_lock_channels", "channels_lock", "sort_lock_channels"}
             -> "channels"
      [] threads[t].pc \in {"push_lock_items", "items_lock", "sort_lock_items"} -> "items"
      [] OTHER -> ""
Blocked(t) == WantedLock(t) # "" /\ mutex[WantedLock(t)] # 0

(* C25: the threads never all wait: whenever some thread is inside a call, *)
(* some thread inside a call can take its next step; and under fair        *)
(* scheduling every call a thread has started ends.                        *)
C25_NoDeadlock ==
    /\ []((\E t \in Threads : Busy(t)) => \E u \in Threads : Busy(u) /\ ~Blocked(u))
    /\ \A t \in Threads : Busy(t) ~> ~Busy(t)

C25_Witness ==
    \E t, u \in Threads :
        /\ threads[t].pc = "push_lock_items"
        /\ mutex.channels = t
        /\ mutex.items = u
        /\ threads[u].pc = "sort_items"
        /\ poisoned = {}

(* C26, as claimed: the sequence a sort by an item criterion returns, the  *)
(* copy made by the step that ends the call, is in the order of that       *)
(* criterion, also when other threads push meanwhile: untitled items first *)
(* under Title, and ascending by key.                                      *)
C26_SortReturnsSorted ==
    [][\A t \in Threads :
          (/\ threads[t].pc = "items_copy"
           /\ threads[t].call.name = "sort"
           /\ threads[t].call.crit.kind \in ItemSortType
           /\ threads'[t].pc = "idle")
          => LET returned == ItemCollection_items(core_items)
                 kind == threads[t].call.crit.kind
             IN  /\ AscendingWhereKeyed(kind, returned)
                 /\ kind = "Title" =>
                        \A i, j \in 1..Len(returned) :
                            (~returned[i].title.some /\ returned[j].title.some) => i < j]_vars
====
